---- MODULE Spec2Model ----
(***************************************************************************)
(* A model of the Pong game core (Corysia/pong): the Game orchestrator's   *)
(* tick, the Ball and Paddle entities, the InputManager, the UIManager,    *)
(* the AudioManager and the WinCondition evaluator.                        *)
(*                                                                         *)
(* Numbers.  The program computes in floating point; the model computes    *)
(* in fixed point:                                                         *)
(*   positions   in units of 0.01 world units (the 0.01 nudge is 1),       *)
(*   velocities  in units of 0.1 world units per second,                   *)
(*   dt          in units of 0.1 second,                                   *)
(* so that position + velocity * dt is exact.  Angles are degrees; cosine  *)
(* and sine come from a table scaled by 1000, and a deflection angle is    *)
(* rounded to the nearest multiple of 15 degrees.                          *)
(***************************************************************************)
EXTENDS Integers, Sequences, FiniteSets

VARIABLES
    paused,       \* Game.paused
    playerScore,  \* Game.playerScore
    aiScore,      \* Game.aiScore
    ball,         \* Ball: mesh.position.x, mesh.position.z, vx, vz
    leftZ,        \* leftPaddle.mesh.position.z  (the player's paddle)
    rightZ,       \* rightPaddle.mesh.position.z (the AI's paddle)
    input,        \* InputManager: up, down, servePressed
    ui,           \* UIManager: scoreText.text, centerText.text
    audio,        \* AudioManager: unlocked, the loaded sounds, unlock() calls in flight
    log,          \* what the most recent tick did (observation only)
    keyDowns,     \* number of Space key-down events so far (observation only)
    serves,       \* number of serves so far (observation only)
    reqPaused,    \* the pending serve request saw a key-down while Paused (observation only)
    rallyHits,    \* paddle hits since the last serve (observation only)
    wp,           \* WinCondition.check: argument playerScore
    wa,           \* WinCondition.check: argument aiScore
    wres,         \* WinCondition.check: the value returned, "none" before the call
    col,          \* circleRectCollideXZ: its seven arguments and the value returned
    cfg,          \* the settings a Game is constructed from, and whether it was built
    events        \* InputManager: Space key-downs and consumeServePressed results, in order

gameVars == <<paused, playerScore, aiScore, ball, leftZ, rightZ, input, ui, audio,
              log, keyDowns, serves, reqPaused, rallyHits>>
winVars == <<wp, wa, wres>>
vars == <<paused, playerScore, aiScore, ball, leftZ, rightZ, input, ui, audio,
          log, keyDowns, serves, reqPaused, rallyHits, wp, wa, wres, col, cfg, events>>

-----------------------------------------------------------------------------
(* Bounds of the model *)

\* Space key-down events the environment may deliver
MaxKeyDowns == 2
\* paddle hits the model follows within one rally
MaxHits == 2
\* largest score handed to WinCondition.check
MaxArg == 13
\* largest coordinate of a circle center handed to circleRectCollideXZ
MaxCoord == 6
\* Space key-downs and consumeServePressed calls followed on an InputManager
MaxEvents == 5

\* per-tick elapsed times the engine may report, in 0.1 s
DtSet == {0, 2, 4}
\* launch angles (degrees) drawn by Ball.serve, within 0.6 * bounceAngleMaxDeg = 27
ServeAngles == {-27, 0, 15}
\* the angles (degrees) a paddle hit can hand to speedUpAndDeflect
DeflectAngles == {-45, -30, -15, 0, 15, 30, 45}
\* positions between the walls a ball is followed from when Ball is taken on
\* its own: against either wall, near either wall, at the center
BallZs == {-1430, -1000, 0, 1000, 1430}
\* radii, rectangle centers and rectangle sizes handed to circleRectCollideXZ
Radii == {0, 1, 2, 5}
RectXs == {0, 1}
RectZs == {-1, 0}
RectWidths == {2, 4}
RectDepths == {2, 6}
\* ball and paddle positions handed to handlePaddleCollisions when it is taken
\* on its own: the ball on, against, just off and away from either paddle
HitXs == {-2431, -2430, -2300, -2170, -2169, 0, 2169, 2170, 2300, 2430, 2431}
HitZs == {-1430, -470, -400, 0, 150, 400, 470, 471}
LeftZs == {-1100, 0}
RightZs == {0, 1100}

-----------------------------------------------------------------------------
(* SETTINGS *)

WorldWidth == 5000
WorldDepth == 3000
PaddleWidthX == 120
PaddleLengthZ == 800
PaddleSpeed == 280
BallRadius == 70
SpeedStart == 180
SpeedMax == 400
BounceAngleMaxDeg == 45
SpeedGainPerHit == 106
AiMaxSpeed == 200
TrackOnlyWhenIncoming == TRUE
ReturnToCenterSpeed == 100
MaxScore == 11
Deuce == 10
Skunk == 6
WallPadding == 200
\* the 0.01 added when a paddle hit moves the ball out of the paddle
Nudge == 1

\* the settings the game ships with, built into a Game
ShippedConfig ==
    [lengthZ |-> PaddleLengthZ, depth |-> WorldDepth, paddleSpeed |-> PaddleSpeed,
     speedStart |-> SpeedStart, maxScore |-> MaxScore, deuce |-> Deuce,
     skunk |-> Skunk, built |-> TRUE]

-----------------------------------------------------------------------------
(* Settings.ts helpers *)

Min(a, b) == IF a <= b THEN a ELSE b
Max(a, b) == IF a >= b THEN a ELSE b

\* clamp = Math.max(min, Math.min(max, v))
Clamp(v, lo, hi) == Max(lo, Min(hi, v))

\* n / d rounded to the nearest integer, halves away from zero
RoundDiv(n, d) ==
    IF n >= 0 THEN (2 * n + d) \div (2 * d) ELSE -((2 * (-n) + d) \div (2 * d))

Abs(n) == IF n >= 0 THEN n ELSE -n

\* Math.cos(radians(deg)) * 1000
Cos1000(deg) ==
    CASE Abs(deg) = 0 -> 1000
      [] Abs(deg) = 15 -> 966
      [] Abs(deg) = 27 -> 891
      [] Abs(deg) = 30 -> 866
      [] Abs(deg) = 45 -> 707

\* Math.sin(radians(deg)) * 1000
Sin1000(deg) ==
    LET s == CASE Abs(deg) = 0 -> 0
               [] Abs(deg) = 15 -> 259
               [] Abs(deg) = 27 -> 454
               [] Abs(deg) = 30 -> 500
               [] Abs(deg) = 45 -> 707
    IN IF deg >= 0 THEN s ELSE -s

\* Math.hypot(vx, vz), rounded to the velocity unit
Hypot(vx, vz) ==
    LET n == vx * vx + vz * vz
    IN CHOOSE r \in 0..(2 * SpeedMax) :
           (2 * r - 1) * (2 * r - 1) <= 4 * n /\ 4 * n < (2 * r + 1) * (2 * r + 1)

-----------------------------------------------------------------------------
(* Arena *)

ArenaBounds ==
    [left  |-> -(WorldWidth \div 2),
     right |-> WorldWidth \div 2,
     back  |-> -(WorldDepth \div 2),
     front |-> WorldDepth \div 2]

\* Game constructor: paddles at the edges
LeftPaddleX == ArenaBounds.left + WallPadding
\* the AI's paddle placed right beside the player's
RightPaddleXBesideLeft == LeftPaddleX + PaddleWidthX + BallRadius
RightPaddleX == ArenaBounds.right - WallPadding

-----------------------------------------------------------------------------
(* collision.ts *)

\* no call of circleRectCollideXZ is being followed
NoCall == [cx |-> 0, cz |-> 0, r |-> 0, rx |-> 0, rz |-> 0, rw |-> 0, rd |-> 0,
           called |-> FALSE, res |-> FALSE]

\* circleRectCollideXZ with a strict comparison (< for <=)
CircleRectCollideStrict(cx, cz, r, rx, rz, rw, rd) ==
    LET halfW == rw \div 2
        halfD == rd \div 2
        closestX == Clamp(cx, rx - halfW, rx + halfW)
        closestZ == Clamp(cz, rz - halfD, rz + halfD)
        dx == cx - closestX
        dz == cz - closestZ
    IN (dx * dx + dz * dz) < r * r

CircleRectCollideXZ(cx, cz, r, rx, rz, rw, rd) ==
    LET halfW == rw \div 2
        halfD == rd \div 2
        closestX == Clamp(cx, rx - halfW, rx + halfW)
        closestZ == Clamp(cz, rz - halfD, rz + halfD)
        dx == cx - closestX
        dz == cz - closestZ
    IN (dx * dx + dz * dz) <= r * r

-----------------------------------------------------------------------------
(* Ball *)

ResetPosition == [x |-> 0, z |-> 0, vx |-> 0, vz |-> 0]

\* serve launching the ball at speedMax
BallServeAtSpeedMax(dirX, angle) ==
    LET speed == SpeedMax
    IN [ResetPosition EXCEPT
          !.vx = RoundDiv(Cos1000(angle) * speed, 1000) * dirX,
          !.vz = RoundDiv(Sin1000(angle) * speed, 1000)]

\* dirX and angle are the two Math.random() draws
BallServe(dirX, angle) ==
    LET speed == SpeedStart
    IN [ResetPosition EXCEPT
          !.vx = RoundDiv(Cos1000(angle) * speed, 1000) * dirX,
          !.vz = RoundDiv(Sin1000(angle) * speed, 1000)]

\* Ball.update with a wall branch that reverses vx as well
BallUpdateFlipsVx(b, dt) ==
    LET r == BallRadius
        x1 == b.x + b.vx * dt
        z1 == b.z + b.vz * dt
    IN IF z1 + r > ArenaBounds.front
       THEN [x |-> x1, z |-> ArenaBounds.front - r, vx |-> -b.vx, vz |-> -b.vz]
       ELSE IF z1 - r < ArenaBounds.back
       THEN [x |-> x1, z |-> ArenaBounds.back + r, vx |-> -b.vx, vz |-> -b.vz]
       ELSE [x |-> x1, z |-> z1, vx |-> b.vx, vz |-> b.vz]

\* Ball.update integrating z only
BallUpdateKeepsX(b, dt) ==
    LET r == BallRadius
        z1 == b.z + b.vz * dt
    IN IF z1 + r > ArenaBounds.front
       THEN [x |-> b.x, z |-> ArenaBounds.front - r, vx |-> b.vx, vz |-> -b.vz]
       ELSE IF z1 - r < ArenaBounds.back
       THEN [x |-> b.x, z |-> ArenaBounds.back + r, vx |-> b.vx, vz |-> -b.vz]
       ELSE [x |-> b.x, z |-> z1, vx |-> b.vx, vz |-> b.vz]

\* Ball.update reversing vz at a wall without moving the ball back inside
BallUpdateNoReposition(b, dt) ==
    LET r == BallRadius
        x1 == b.x + b.vx * dt
        z1 == b.z + b.vz * dt
    IN IF z1 + r > ArenaBounds.front \/ z1 - r < ArenaBounds.back
       THEN [x |-> x1, z |-> z1, vx |-> b.vx, vz |-> -b.vz]
       ELSE [x |-> x1, z |-> z1, vx |-> b.vx, vz |-> b.vz]

\* Ball.update: integrate, then reflect off the front or back wall
BallUpdate(b, dt) ==
    LET r == BallRadius
        x1 == b.x + b.vx * dt
        z1 == b.z + b.vz * dt
    IN IF z1 + r > ArenaBounds.front
       THEN [x |-> x1, z |-> ArenaBounds.front - r, vx |-> b.vx, vz |-> -b.vz]
       ELSE IF z1 - r < ArenaBounds.back
       THEN [x |-> x1, z |-> ArenaBounds.back + r, vx |-> b.vx, vz |-> -b.vz]
       ELSE [x |-> x1, z |-> z1, vx |-> b.vx, vz |-> b.vz]

\* Ball.update took one of its two wall branches
Reflects(b, dt) ==
    LET r == BallRadius
        z1 == b.z + b.vz * dt
    IN z1 + r > ArenaBounds.front \/ z1 - r < ArenaBounds.back

\* the value Ball.update hands back to its caller: the method has no return
\* statement, so the caller receives undefined, which is falsy
BallUpdateResult(b, dt) == FALSE

\* speedUpAndDeflect without the Math.min against speedMax
SpeedUpAndDeflectNoCap(b, outgoingDirX, angle) ==
    LET speed == RoundDiv(Hypot(b.vx, b.vz) * SpeedGainPerHit, 100)
    IN [b EXCEPT
          !.vx = RoundDiv(Cos1000(angle) * speed, 1000) * outgoingDirX,
          !.vz = RoundDiv(Sin1000(angle) * speed, 1000)]

\* speedUpAndDeflect dividing by speedGainPerHit
SpeedUpAndDeflectSlows(b, outgoingDirX, angle) ==
    LET speed == Min(RoundDiv(Hypot(b.vx, b.vz) * 100, SpeedGainPerHit), SpeedMax)
    IN [b EXCEPT
          !.vx = RoundDiv(Cos1000(angle) * speed, 1000) * outgoingDirX,
          !.vz = RoundDiv(Sin1000(angle) * speed, 1000)]

SpeedUpAndDeflect(b, outgoingDirX, angle) ==
    LET speed == Min(RoundDiv(Hypot(b.vx, b.vz) * SpeedGainPerHit, 100), SpeedMax)
    IN [b EXCEPT
          !.vx = RoundDiv(Cos1000(angle) * speed, 1000) * outgoingDirX,
          !.vz = RoundDiv(Sin1000(angle) * speed, 1000)]

-----------------------------------------------------------------------------
(* Paddle *)

\* clampWithin against the walls themselves, without the paddle's half length
ClampWithinWalls(z) ==
    Clamp(z, ArenaBounds.back, ArenaBounds.front)

ClampWithin(z) ==
    LET half == PaddleLengthZ \div 2
    IN Clamp(z, ArenaBounds.back + half, ArenaBounds.front - half)

\* updatePlayer with  else if (down)  for  if (down)
UpdatePlayerUpWins(z, dt, up, down) ==
    LET z1 == IF up THEN z + PaddleSpeed * dt
              ELSE IF down THEN z - PaddleSpeed * dt ELSE z
    IN ClampWithin(z1)

UpdatePlayer(z, dt, up, down) ==
    LET z1 == IF up THEN z + PaddleSpeed * dt ELSE z
        z2 == IF down THEN z1 - PaddleSpeed * dt ELSE z1
    IN ClampWithin(z2)

\* updateAI jumping to the target
PaddleUpdateAISnaps(z, dt, targetZ, speed) ==
    ClampWithin(targetZ)

PaddleUpdateAI(z, dt, targetZ, speed) ==
    LET dz == targetZ - z
        maxStep == speed * dt
        step == Clamp(dz, -maxStep, maxStep)
    IN ClampWithin(z + step)

-----------------------------------------------------------------------------
(* InputManager *)

\* the key codes onKeyDown and onKeyUp tell apart
KeyCodes == {"ArrowUp", "KeyW", "ArrowDown", "KeyS", "Space"}

OnKeyDown(inp, code) ==
    LET i1 == IF code = "ArrowUp" \/ code = "KeyW" THEN [inp EXCEPT !.up = TRUE] ELSE inp
        i2 == IF code = "ArrowDown" \/ code = "KeyS" THEN [i1 EXCEPT !.down = TRUE] ELSE i1
    IN IF code = "Space" THEN [i2 EXCEPT !.servePressed = TRUE] ELSE i2

OnKeyUp(inp, code) ==
    LET i1 == IF code = "ArrowUp" \/ code = "KeyW" THEN [inp EXCEPT !.up = FALSE] ELSE inp
    IN IF code = "ArrowDown" \/ code = "KeyS" THEN [i1 EXCEPT !.down = FALSE] ELSE i1

\* consumeServePressed without the line that clears the flag
ConsumeLeavesFlag(inp) ==
    [pressed |-> inp.servePressed, input |-> inp]

\* consumeServePressed reading the flag after it has cleared it
ConsumeReadsAfterClear(inp) ==
    [pressed |-> FALSE, input |-> [inp EXCEPT !.servePressed = FALSE]]

\* consumeServePressed: the value returned and the InputManager afterwards
ConsumeServePressed(inp) ==
    [pressed |-> inp.servePressed, input |-> [inp EXCEPT !.servePressed = FALSE]]

-----------------------------------------------------------------------------
(* UIManager *)

\* the template `You: ${player}    |    AI: ${ai}`
ScoreText(player, ai) == <<"You: ", player, "    |    AI: ", ai>>

SetScore(u, player, ai) == [u EXCEPT !.scoreText = ScoreText(player, ai)]
SetCenterMessage(u, msg) == [u EXCEPT !.centerText = msg]
\* clearCenterMessage leaving the text in place
ClearCenterMessageKeepsText(u) == u
ClearCenterMessage(u) == [u EXCEPT !.centerText = ""]

StartMessage == "Press Space to serve\n\n\nW - Up\nS - Down"
PointMessage == "Point! Press Space to serve"

-----------------------------------------------------------------------------
(* AudioManager *)

\* the fields unlock() assigns, in the order it assigns them
SoundOrder == <<"green_paddle", "red_paddle", "wall", "player_score", "ai_score">>

\* unlock(): an async call; when the flag is not set yet it starts a run that
\* awaits the engine, the five sounds and the engine's unlock
AudioUnlock(a) ==
    IF ~a.unlocked THEN [a EXCEPT !.pending = Append(@, 0)] ELSE a

\* a run of unlock() resumes after its k-th await: 0 the engine was created,
\* 1..5 a sound was loaded and is assigned, 6 unlockAsync resolved
AudioResume(a, i) ==
    LET k == a.pending[i]
        a1 == IF k = 0 THEN [a EXCEPT !.engines = @ + 1]
              ELSE IF k <= 5 THEN [a EXCEPT !.sounds = @ \cup {SoundOrder[k]},
                                            !.loads = @ + 1]
              ELSE [a EXCEPT !.unlocked = TRUE]
    IN IF k = 6
       THEN [a1 EXCEPT !.pending = SubSeq(@, 1, i - 1) \o SubSeq(@, i + 1, Len(@))]
       ELSE [a1 EXCEPT !.pending[i] = k + 1]

\* play* calling play() without the ?. test of the field
PlayUnguarded(s, sound) ==
    [s EXCEPT !.log.signals = @ \cup {sound}, !.log.cues = @ \cup {sound}]

\* green_paddle?.play() and its siblings: plays when the field is assigned
Play(s, sound) ==
    LET s1 == [s EXCEPT !.log.signals = @ \cup {sound}]
    IN IF sound \in s.audio.sounds THEN [s1 EXCEPT !.log.cues = @ \cup {sound}] ELSE s1

-----------------------------------------------------------------------------
(* WinCondition *)

\* check with the first test comparing against maxScore instead of deuce
CheckDeuceAtMax(playerScoreArg, aiScoreArg) ==
    IF playerScoreArg = MaxScore /\ aiScoreArg = MaxScore THEN "Deuce"
    ELSE IF playerScoreArg >= Deuce /\ aiScoreArg >= Deuce
            /\ playerScoreArg > aiScoreArg + 1 THEN "Player"
    ELSE IF playerScoreArg >= Deuce /\ aiScoreArg >= Deuce
            /\ playerScoreArg + 1 < aiScoreArg THEN "AI"
    ELSE IF playerScoreArg = Skunk /\ aiScoreArg = 0 THEN "Player"
    ELSE IF aiScoreArg = Skunk /\ playerScoreArg = 0 THEN "AI"
    ELSE IF playerScoreArg = MaxScore /\ playerScoreArg - aiScoreArg > 1 THEN "Player"
    ELSE IF aiScoreArg = MaxScore /\ aiScoreArg - playerScoreArg > 1 THEN "AI"
    ELSE "Continue"

\* check with a one-point lead winning in extended play (>= for >)
CheckLeadByOne(playerScoreArg, aiScoreArg) ==
    IF playerScoreArg = Deuce /\ aiScoreArg = Deuce THEN "Deuce"
    ELSE IF playerScoreArg >= Deuce /\ aiScoreArg >= Deuce
            /\ playerScoreArg >= aiScoreArg + 1 THEN "Player"
    ELSE IF playerScoreArg >= Deuce /\ aiScoreArg >= Deuce
            /\ playerScoreArg + 1 <= aiScoreArg THEN "AI"
    ELSE IF playerScoreArg = Skunk /\ aiScoreArg = 0 THEN "Player"
    ELSE IF aiScoreArg = Skunk /\ playerScoreArg = 0 THEN "AI"
    ELSE IF playerScoreArg = MaxScore /\ playerScoreArg - aiScoreArg > 1 THEN "Player"
    ELSE IF aiScoreArg = MaxScore /\ aiScoreArg - playerScoreArg > 1 THEN "AI"
    ELSE "Continue"

\* check with the skunk rule asking for a lead of skunk points over any opponent
\* score but zero (!= 0 for == 0)
CheckSkunkNonZero(playerScoreArg, aiScoreArg) ==
    IF playerScoreArg = Deuce /\ aiScoreArg = Deuce THEN "Deuce"
    ELSE IF playerScoreArg >= Deuce /\ aiScoreArg >= Deuce
            /\ playerScoreArg > aiScoreArg + 1 THEN "Player"
    ELSE IF playerScoreArg >= Deuce /\ aiScoreArg >= Deuce
            /\ playerScoreArg + 1 < aiScoreArg THEN "AI"
    ELSE IF playerScoreArg = Skunk /\ aiScoreArg # 0 THEN "Player"
    ELSE IF aiScoreArg = Skunk /\ playerScoreArg # 0 THEN "AI"
    ELSE IF playerScoreArg = MaxScore /\ playerScoreArg - aiScoreArg > 1 THEN "Player"
    ELSE IF aiScoreArg = MaxScore /\ aiScoreArg - playerScoreArg > 1 THEN "AI"
    ELSE "Continue"

\* check with the max-score rule asking for a lead of more than two (> 2 for > 1)
CheckMaxLeadOverTwo(playerScoreArg, aiScoreArg) ==
    IF playerScoreArg = Deuce /\ aiScoreArg = Deuce THEN "Deuce"
    ELSE IF playerScoreArg >= Deuce /\ aiScoreArg >= Deuce
            /\ playerScoreArg > aiScoreArg + 1 THEN "Player"
    ELSE IF playerScoreArg >= Deuce /\ aiScoreArg >= Deuce
            /\ playerScoreArg + 1 < aiScoreArg THEN "AI"
    ELSE IF playerScoreArg = Skunk /\ aiScoreArg = 0 THEN "Player"
    ELSE IF aiScoreArg = Skunk /\ playerScoreArg = 0 THEN "AI"
    ELSE IF playerScoreArg = MaxScore /\ playerScoreArg - aiScoreArg > 2 THEN "Player"
    ELSE IF aiScoreArg = MaxScore /\ aiScoreArg - playerScoreArg > 2 THEN "AI"
    ELSE "Continue"

\* check with the max-score rule content with any lead (> 0 for > 1)
CheckMaxAnyLead(playerScoreArg, aiScoreArg) ==
    IF playerScoreArg = Deuce /\ aiScoreArg = Deuce THEN "Deuce"
    ELSE IF playerScoreArg >= Deuce /\ aiScoreArg >= Deuce
            /\ playerScoreArg > aiScoreArg + 1 THEN "Player"
    ELSE IF playerScoreArg >= Deuce /\ aiScoreArg >= Deuce
            /\ playerScoreArg + 1 < aiScoreArg THEN "AI"
    ELSE IF playerScoreArg = Skunk /\ aiScoreArg = 0 THEN "Player"
    ELSE IF aiScoreArg = Skunk /\ playerScoreArg = 0 THEN "AI"
    ELSE IF playerScoreArg = MaxScore /\ playerScoreArg - aiScoreArg > 0 THEN "Player"
    ELSE IF aiScoreArg = MaxScore /\ aiScoreArg - playerScoreArg > 0 THEN "AI"
    ELSE "Continue"

\* check returning Continue whenever a side stands at maxScore
CheckNoVerdictAtMax(playerScoreArg, aiScoreArg) ==
    IF playerScoreArg = MaxScore \/ aiScoreArg = MaxScore THEN "Continue"
    ELSE CheckMaxAnyLead(playerScoreArg, aiScoreArg)

Check(playerScoreArg, aiScoreArg) ==
    IF playerScoreArg = Deuce /\ aiScoreArg = Deuce THEN "Deuce"
    ELSE IF playerScoreArg >= Deuce /\ aiScoreArg >= Deuce
            /\ playerScoreArg > aiScoreArg + 1 THEN "Player"
    ELSE IF playerScoreArg >= Deuce /\ aiScoreArg >= Deuce
            /\ playerScoreArg + 1 < aiScoreArg THEN "AI"
    ELSE IF playerScoreArg = Skunk /\ aiScoreArg = 0 THEN "Player"
    ELSE IF aiScoreArg = Skunk /\ playerScoreArg = 0 THEN "AI"
    ELSE IF playerScoreArg = MaxScore /\ playerScoreArg - aiScoreArg > 1 THEN "Player"
    ELSE IF aiScoreArg = MaxScore /\ aiScoreArg - playerScoreArg > 1 THEN "AI"
    ELSE "Continue"

-----------------------------------------------------------------------------
(* Game.  The operators below take and return the whole state of the Game  *)
(* object as a record s; Tick assigns the variables from the result.       *)

\* log.kind names the step the log describes: "init", "tick" or "key" (and, when
\* an entity's method is followed on its own, "update" or "hit"); dt is the
\* elapsed time of the step, reflected says that a Ball.update of the step
\* bounced the ball off a wall, signals holds the play* methods the step called
\* and cues those of them that had a sound to play; aiTarget and aiSpeed are
\* the target and speed updateAI chose, angle the angle (degrees) of a paddle hit
\* or, with dirX, of a serve followed on its own
EmptyLog ==
    [kind |-> "tick", served |-> FALSE, ran |-> FALSE, hitLeft |-> FALSE, hitRight |-> FALSE,
     testX |-> 0, scored |-> "none", winCheck |-> "none", cues |-> {},
     dt |-> 0, reflected |-> FALSE, signals |-> {},
     aiTarget |-> 0, aiSpeed |-> 0, angle |-> 0, dirX |-> 0]

KeyLog == [EmptyLog EXCEPT !.kind = "key"]

Cur ==
    [paused |-> paused, playerScore |-> playerScore, aiScore |-> aiScore,
     ball |-> ball, leftZ |-> leftZ, rightZ |-> rightZ, input |-> input,
     ui |-> ui, audio |-> audio, log |-> log, rallyHits |-> rallyHits]

\* serveIfRequested holding the serve back until the audio is unlocked
ServeIfRequestedAwaitsUnlock(s, dirX, angle) ==
    IF ~s.paused THEN s
    ELSE LET c == ConsumeServePressed(s.input)
             s1 == [s EXCEPT !.input = c.input]
         IN IF c.pressed /\ s.audio.unlocked
            THEN [s1 EXCEPT !.ball = BallServe(dirX, angle),
                            !.paused = FALSE,
                            !.ui = ClearCenterMessage(@),
                            !.log.served = TRUE,
                            !.rallyHits = 0]
            ELSE IF c.pressed
            THEN [s1 EXCEPT !.audio = AudioUnlock(@)]
            ELSE s1

ServeIfRequested(s, dirX, angle) ==
    IF ~s.paused THEN s
    ELSE LET c == ConsumeServePressed(s.input)
             s1 == [s EXCEPT !.input = c.input]
         IN IF c.pressed
            THEN [s1 EXCEPT !.audio = AudioUnlock(@),
                            !.ball = BallServe(dirX, angle),
                            !.paused = FALSE,
                            !.ui = ClearCenterMessage(@),
                            !.log.served = TRUE,
                            !.rallyHits = 0]
            ELSE s1

\* clamp(impact, -1, 1) * radians(bounceAngleMaxDeg), in degrees
DeflectAngle(ballZ, paddleZ) ==
    LET halfLen == PaddleLengthZ \div 2
        d == Clamp(ballZ - paddleZ, -halfLen, halfLen)
    IN (BounceAngleMaxDeg \div 3) * RoundDiv(3 * d, halfLen)

\* handlePaddleCollisions without the two tests of the ball's direction
HandlePaddleCollisionsAnyDirection(s) ==
    LET r == BallRadius
        hitL == CircleRectCollideXZ(s.ball.x, s.ball.z, r,
                    LeftPaddleX, s.leftZ, PaddleWidthX, PaddleLengthZ)
        s1 == IF hitL
              THEN Play([s EXCEPT
                      !.ball = SpeedUpAndDeflect(
                                 [s.ball EXCEPT !.x = LeftPaddleX
                                                      + (PaddleWidthX \div 2 + r + Nudge)],
                                 1, DeflectAngle(s.ball.z, s.leftZ)),
                      !.log.hitLeft = TRUE,
                      !.log.angle = DeflectAngle(s.ball.z, s.leftZ),
                      !.rallyHits = @ + 1], "green_paddle")
              ELSE s
        hitR == CircleRectCollideXZ(s1.ball.x, s1.ball.z, r,
                    RightPaddleX, s1.rightZ, PaddleWidthX, PaddleLengthZ)
    IN IF hitR
       THEN Play([s1 EXCEPT
               !.ball = SpeedUpAndDeflect(
                          [s1.ball EXCEPT !.x = RightPaddleX
                                                - (PaddleWidthX \div 2 + r + Nudge)],
                          -1, DeflectAngle(s1.ball.z, s1.rightZ)),
               !.log.hitRight = TRUE,
               !.log.angle = DeflectAngle(s1.ball.z, s1.rightZ),
               !.rallyHits = @ + 1], "red_paddle")
       ELSE s1

\* handlePaddleCollisions without the two assignments to this.ball.x
HandlePaddleCollisionsNoReposition(s) ==
    LET r == BallRadius
        hitL == s.ball.vx < 0 /\ CircleRectCollideXZ(s.ball.x, s.ball.z, r,
                    LeftPaddleX, s.leftZ, PaddleWidthX, PaddleLengthZ)
        s1 == IF hitL
              THEN Play([s EXCEPT
                      !.ball = SpeedUpAndDeflect(
                                 s.ball,
                                 1, DeflectAngle(s.ball.z, s.leftZ)),
                      !.log.hitLeft = TRUE,
                      !.log.angle = DeflectAngle(s.ball.z, s.leftZ),
                      !.rallyHits = @ + 1], "green_paddle")
              ELSE s
        hitR == s1.ball.vx > 0 /\ CircleRectCollideXZ(s1.ball.x, s1.ball.z, r,
                    RightPaddleX, s1.rightZ, PaddleWidthX, PaddleLengthZ)
    IN IF hitR
       THEN Play([s1 EXCEPT
               !.ball = SpeedUpAndDeflect(
                          s1.ball,
                          -1, DeflectAngle(s1.ball.z, s1.rightZ)),
               !.log.hitRight = TRUE,
               !.log.angle = DeflectAngle(s1.ball.z, s1.rightZ),
               !.rallyHits = @ + 1], "red_paddle")
       ELSE s1

\* handlePaddleCollisions placing the ball off the goal line behind the paddle
\* instead of off the paddle
HandlePaddleCollisionsFromGoalLine(s) ==
    LET r == BallRadius
        hitL == s.ball.vx < 0 /\ CircleRectCollideXZ(s.ball.x, s.ball.z, r,
                    LeftPaddleX, s.leftZ, PaddleWidthX, PaddleLengthZ)
        s1 == IF hitL
              THEN Play([s EXCEPT
                      !.ball = SpeedUpAndDeflect(
                                 [s.ball EXCEPT !.x = ArenaBounds.left
                                                      - (PaddleWidthX \div 2 + r + Nudge)],
                                 1, DeflectAngle(s.ball.z, s.leftZ)),
                      !.log.hitLeft = TRUE,
                      !.log.angle = DeflectAngle(s.ball.z, s.leftZ),
                      !.rallyHits = @ + 1], "green_paddle")
              ELSE s
        hitR == s1.ball.vx > 0 /\ CircleRectCollideXZ(s1.ball.x, s1.ball.z, r,
                    RightPaddleX, s1.rightZ, PaddleWidthX, PaddleLengthZ)
    IN IF hitR
       THEN Play([s1 EXCEPT
               !.ball = SpeedUpAndDeflect(
                          [s1.ball EXCEPT !.x = ArenaBounds.right
                                                + (PaddleWidthX \div 2 + r + Nudge)],
                          -1, DeflectAngle(s1.ball.z, s1.rightZ)),
               !.log.hitRight = TRUE,
               !.log.angle = DeflectAngle(s1.ball.z, s1.rightZ),
               !.rallyHits = @ + 1], "red_paddle")
       ELSE s1

HandlePaddleCollisions(s) ==
    LET r == BallRadius
        hitL == s.ball.vx < 0 /\ CircleRectCollideXZ(s.ball.x, s.ball.z, r,
                    LeftPaddleX, s.leftZ, PaddleWidthX, PaddleLengthZ)
        s1 == IF hitL
              THEN Play([s EXCEPT
                      !.ball = SpeedUpAndDeflect(
                                 [s.ball EXCEPT !.x = LeftPaddleX
                                                      + (PaddleWidthX \div 2 + r + Nudge)],
                                 1, DeflectAngle(s.ball.z, s.leftZ)),
                      !.log.hitLeft = TRUE,
                      !.log.angle = DeflectAngle(s.ball.z, s.leftZ),
                      !.rallyHits = @ + 1], "green_paddle")
              ELSE s
        hitR == s1.ball.vx > 0 /\ CircleRectCollideXZ(s1.ball.x, s1.ball.z, r,
                    RightPaddleX, s1.rightZ, PaddleWidthX, PaddleLengthZ)
    IN IF hitR
       THEN Play([s1 EXCEPT
               !.ball = SpeedUpAndDeflect(
                          [s1.ball EXCEPT !.x = RightPaddleX
                                                - (PaddleWidthX \div 2 + r + Nudge)],
                          -1, DeflectAngle(s1.ball.z, s1.rightZ)),
               !.log.hitRight = TRUE,
               !.log.angle = DeflectAngle(s1.ball.z, s1.rightZ),
               !.rallyHits = @ + 1], "red_paddle")
       ELSE s1

\* resetPoint without  this.paused = true
ResetPointStaysRunning(s, message) ==
    [s EXCEPT !.ball = ResetPosition,
              !.leftZ = 0,
              !.rightZ = 0,
              !.ui = SetCenterMessage(SetScore(@, s.playerScore, s.aiScore), message)]

\* resetPoint without  this.rightPaddle.setZ(0)
ResetPointLeftOnly(s, message) ==
    [s EXCEPT !.paused = TRUE,
              !.ball = ResetPosition,
              !.leftZ = 0,
              !.ui = SetCenterMessage(SetScore(@, s.playerScore, s.aiScore), message)]

\* resetPoint without  this.ball.resetPosition()
ResetPointKeepsBall(s, message) ==
    [s EXCEPT !.paused = TRUE,
              !.leftZ = 0,
              !.rightZ = 0,
              !.ui = SetCenterMessage(SetScore(@, s.playerScore, s.aiScore), message)]

ResetPoint(s, message) ==
    [s EXCEPT !.paused = TRUE,
              !.ball = ResetPosition,
              !.leftZ = 0,
              !.rightZ = 0,
              !.ui = SetCenterMessage(SetScore(@, s.playerScore, s.aiScore), message)]

\* handleScoring with a stray  this.aiScore++  left in the player's branch
HandleScoringCountsBoth(s) ==
    LET r == BallRadius
        b == ArenaBounds
    IN IF s.ball.x - r > b.right
       THEN Play(ResetPoint([s EXCEPT !.playerScore = @ + 1, !.aiScore = @ + 1,
                                      !.log.scored = "player"],
                            PointMessage), "player_score")
       ELSE IF s.ball.x + r < b.left
       THEN Play(ResetPoint([s EXCEPT !.aiScore = @ + 1, !.log.scored = "ai"],
                            PointMessage), "ai_score")
       ELSE s

\* handleScoring with the two counters swapped
HandleScoringSwapped(s) ==
    LET r == BallRadius
        b == ArenaBounds
    IN IF s.ball.x - r > b.right
       THEN Play(ResetPoint([s EXCEPT !.aiScore = @ + 1, !.log.scored = "ai"],
                            PointMessage), "ai_score")
       ELSE IF s.ball.x + r < b.left
       THEN Play(ResetPoint([s EXCEPT !.playerScore = @ + 1, !.log.scored = "player"],
                            PointMessage), "player_score")
       ELSE s

HandleScoring(s) ==
    LET r == BallRadius
        b == ArenaBounds
    IN IF s.ball.x - r > b.right
       THEN Play(ResetPoint([s EXCEPT !.playerScore = @ + 1, !.log.scored = "player"],
                            PointMessage), "player_score")
       ELSE IF s.ball.x + r < b.left
       THEN Play(ResetPoint([s EXCEPT !.aiScore = @ + 1, !.log.scored = "ai"],
                            PointMessage), "ai_score")
       ELSE s

\* updateAI tracking the ball whatever its direction
UpdateAIAlwaysTracks(s, dt) ==
    LET targetZ == s.ball.z
        speed == AiMaxSpeed
    IN [s EXCEPT !.rightZ = PaddleUpdateAI(@, dt, targetZ, speed),
                 !.log.aiTarget = targetZ,
                 !.log.aiSpeed = speed]

UpdateAI(s, dt) ==
    LET incoming == s.ball.vx > 0
        targetZ == IF TrackOnlyWhenIncoming /\ ~incoming THEN 0 ELSE s.ball.z
        speed == IF TrackOnlyWhenIncoming /\ ~incoming
                 THEN ReturnToCenterSpeed ELSE AiMaxSpeed
    IN [s EXCEPT !.rightZ = PaddleUpdateAI(@, dt, targetZ, speed),
                 !.log.aiTarget = targetZ,
                 !.log.aiSpeed = speed]

\* the body of  if (!this.paused) { ... }  in tick
RunningBlock(s, dt) ==
    LET s1 == [s EXCEPT !.leftZ = UpdatePlayer(@, dt, s.input.up, s.input.down)]
        s2 == UpdateAI(s1, dt)
        s3 == [s2 EXCEPT !.ball = BallUpdate(@, dt),
                         !.log.reflected = @ \/ Reflects(s2.ball, dt)]
        s4 == HandlePaddleCollisions(s3)
        s5 == [s4 EXCEPT !.log.ran = TRUE, !.log.testX = s4.ball.x]
    IN HandleScoring(s5)

\* Game.tick without  if (!this.paused)  around the running block
TickFnAlwaysRuns(s, dt, dirX, angle) ==
    LET s0 == [s EXCEPT !.log = [EmptyLog EXCEPT !.dt = dt]]
        s1 == ServeIfRequested(s0, dirX, angle)
        s2 == RunningBlock(s1, dt)
        wallBounce == BallUpdateResult(s2.ball, dt)
        s3 == [s2 EXCEPT !.ball = BallUpdate(@, dt),
                         !.log.reflected = @ \/ Reflects(s2.ball, dt)]
    IN IF wallBounce THEN Play(s3, "wall") ELSE s3

\* Game.tick, from the state s at its start
TickFn(s, dt, dirX, angle) ==
    LET s0 == [s EXCEPT !.log = [EmptyLog EXCEPT !.dt = dt]]
        s1 == ServeIfRequested(s0, dirX, angle)
        s2 == IF ~s1.paused THEN RunningBlock(s1, dt) ELSE s1
        wallBounce == BallUpdateResult(s2.ball, dt)
        s3 == [s2 EXCEPT !.ball = BallUpdate(@, dt),
                         !.log.reflected = @ \/ Reflects(s2.ball, dt)]
    IN IF wallBounce THEN Play(s3, "wall") ELSE s3

-----------------------------------------------------------------------------
(* Actions *)

Init ==
    /\ paused = TRUE
    /\ playerScore = 0
    /\ aiScore = 0
    /\ ball = ResetPosition
    /\ leftZ = 0
    /\ rightZ = 0
    /\ input = [up |-> FALSE, down |-> FALSE, servePressed |-> FALSE]
    /\ ui = SetCenterMessage(SetScore([scoreText |-> <<>>, centerText |-> ""], 0, 0),
                             StartMessage)
    /\ audio = [unlocked |-> FALSE, sounds |-> {}, pending |-> <<>>,
                engines |-> 0, loads |-> 0]
    /\ log = [EmptyLog EXCEPT !.kind = "init"]
    /\ keyDowns = 0
    /\ serves = 0
    /\ reqPaused = FALSE
    /\ rallyHits = 0
    /\ wp = 0
    /\ wa = 0
    /\ wres = "none"
    /\ col = NoCall
    /\ cfg = ShippedConfig
    /\ events = <<>>

\* the scene's onBeforeRender observer: one call of Game.tick with the state n
\* it leaves behind
TickTo(n) ==
    /\ n.rallyHits <= MaxHits
    /\ paused' = n.paused
    /\ playerScore' = n.playerScore
    /\ aiScore' = n.aiScore
    /\ ball' = n.ball
    /\ leftZ' = n.leftZ
    /\ rightZ' = n.rightZ
    /\ input' = n.input
    /\ ui' = n.ui
    /\ audio' = n.audio
    /\ log' = n.log
    /\ rallyHits' = n.rallyHits
    /\ serves' = IF n.log.served THEN serves + 1 ELSE serves
    /\ reqPaused' = IF paused THEN FALSE ELSE reqPaused
    /\ UNCHANGED <<keyDowns, wp, wa, wres, col, cfg, events>>

\* a tick that serves: Ball.serve draws its direction and its angle
TickServe ==
    /\ paused /\ input.servePressed
    /\ \E dt \in DtSet, dirX \in {-1, 1}, angle \in ServeAngles :
           \E n \in {TickFn(Cur, dt, dirX, angle)} : TickTo(n)

\* a tick that does not serve: no random number is drawn
TickPlain ==
    /\ ~(paused /\ input.servePressed)
    /\ \E dt \in DtSet :
           \E n \in {TickFn(Cur, dt, 1, 0)} : TickTo(n)

Tick == TickServe \/ TickPlain

\* window "keydown" with e.code = "Space"
KeyDownSpace ==
    /\ keyDowns < MaxKeyDowns
    /\ input' = OnKeyDown(input, "Space")
    /\ keyDowns' = keyDowns + 1
    /\ reqPaused' = (reqPaused \/ paused)
    /\ log' = KeyLog
    /\ UNCHANGED <<paused, playerScore, aiScore, ball, leftZ, rightZ, ui, audio,
                   serves, rallyHits, wp, wa, wres, col, cfg, events>>

\* window "keydown" with one of the movement keys
KeyDownMove ==
    \E code \in KeyCodes \ {"Space"} :
        /\ input' = OnKeyDown(input, code)
        /\ input' # input
        /\ log' = KeyLog
        /\ UNCHANGED <<paused, playerScore, aiScore, ball, leftZ, rightZ, ui, audio,
                       keyDowns, serves, reqPaused, rallyHits, wp, wa, wres, col, cfg, events>>

\* window "keyup"
KeyUp ==
    \E code \in KeyCodes :
        /\ input' = OnKeyUp(input, code)
        /\ input' # input
        /\ log' = KeyLog
        /\ UNCHANGED <<paused, playerScore, aiScore, ball, leftZ, rightZ, ui, audio,
                       keyDowns, serves, reqPaused, rallyHits, wp, wa, wres, col, cfg, events>>

Next == Tick \/ KeyDownSpace \/ KeyDownMove \/ KeyUp

Spec == Init /\ [][Next]_vars

-----------------------------------------------------------------------------
(* WinCondition.check on its own: any pair of scores, then the call *)

InitWin ==
    /\ paused = TRUE
    /\ playerScore = 0
    /\ aiScore = 0
    /\ ball = ResetPosition
    /\ leftZ = 0
    /\ rightZ = 0
    /\ input = [up |-> FALSE, down |-> FALSE, servePressed |-> FALSE]
    /\ ui = SetCenterMessage(SetScore([scoreText |-> <<>>, centerText |-> ""], 0, 0),
                             StartMessage)
    /\ audio = [unlocked |-> FALSE, sounds |-> {}, pending |-> <<>>,
                engines |-> 0, loads |-> 0]
    /\ log = [EmptyLog EXCEPT !.kind = "init"]
    /\ keyDowns = 0
    /\ serves = 0
    /\ reqPaused = FALSE
    /\ rallyHits = 0
    /\ wp \in 0..MaxArg
    /\ wa \in 0..MaxArg
    /\ wres = "none"
    /\ col = NoCall
    /\ cfg = ShippedConfig
    /\ events = <<>>

Evaluate ==
    /\ wres = "none"
    /\ wres' = Check(wp, wa)
    /\ UNCHANGED <<paused, playerScore, aiScore, ball, leftZ, rightZ, input, ui, audio,
                   log, keyDowns, serves, reqPaused, rallyHits, wp, wa, col, cfg, events>>

NextWin == Evaluate

SpecWin == InitWin /\ [][NextWin]_vars

-----------------------------------------------------------------------------
(* The game with frames that keep arriving: the scene calls tick before     *)
(* every frame it renders, and the frames counted here are the ones with     *)
(* dt > 0                                                                     *)

\* ticks with dt > 0 keep arriving; in the program a tick can always be taken,
\* so this is what weak fairness of the tick amounts to
FramesKeepArriving == []<><<log'.kind = "tick" /\ log'.dt > 0>>_vars

SpecLive == Init /\ [][Next]_vars /\ FramesKeepArriving

-----------------------------------------------------------------------------
(* WinCondition.check along a match: from 0-0, one point at a time, the     *)
(* verdict taken after every point; up to the first win, and played on       *)

InitMatch ==
    /\ paused = TRUE
    /\ playerScore = 0
    /\ aiScore = 0
    /\ ball = ResetPosition
    /\ leftZ = 0
    /\ rightZ = 0
    /\ input = [up |-> FALSE, down |-> FALSE, servePressed |-> FALSE]
    /\ ui = SetCenterMessage(SetScore([scoreText |-> <<>>, centerText |-> ""], 0, 0),
                             StartMessage)
    /\ audio = [unlocked |-> FALSE, sounds |-> {}, pending |-> <<>>,
                engines |-> 0, loads |-> 0]
    /\ log = [EmptyLog EXCEPT !.kind = "init"]
    /\ keyDowns = 0
    /\ serves = 0
    /\ reqPaused = FALSE
    /\ rallyHits = 0
    /\ wp = 0
    /\ wa = 0
    /\ wres = Check(0, 0)
    /\ col = NoCall
    /\ cfg = ShippedConfig
    /\ events = <<>>

\* a point for one side (this.playerScore++ or this.aiScore++), then check
PointPlayed ==
    /\ \/ wp < MaxArg /\ wp' = wp + 1 /\ wa' = wa
       \/ wa < MaxArg /\ wa' = wa + 1 /\ wp' = wp
    /\ wres' = Check(wp', wa')
    /\ UNCHANGED <<paused, playerScore, aiScore, ball, leftZ, rightZ, input, ui, audio,
                   log, keyDowns, serves, reqPaused, rallyHits, col, cfg, events>>

\* a point in a match that stops at the first win verdict
PointToFirstWin ==
    /\ wres \notin {"Player", "AI"}
    /\ PointPlayed

NextMatch == PointToFirstWin

SpecMatch == InitMatch /\ [][NextMatch]_vars

NextMatchOn == PointPlayed

SpecMatchOn == InitMatch /\ [][NextMatchOn]_vars

-----------------------------------------------------------------------------
(* Ball on its own: a served ball somewhere between the walls, then any     *)
(* number of speedUpAndDeflect calls, then one update                       *)

InitBall ==
    /\ paused = FALSE
    /\ playerScore = 0
    /\ aiScore = 0
    /\ ball \in {[BallServe(dirX, angle) EXCEPT !.z = z] :
                    dirX \in {-1, 1}, angle \in ServeAngles, z \in BallZs}
    /\ leftZ = 0
    /\ rightZ = 0
    /\ input = [up |-> FALSE, down |-> FALSE, servePressed |-> FALSE]
    /\ ui = SetScore([scoreText |-> <<>>, centerText |-> ""], 0, 0)
    /\ audio = [unlocked |-> FALSE, sounds |-> {}, pending |-> <<>>,
                engines |-> 0, loads |-> 0]
    /\ log = [EmptyLog EXCEPT !.kind = "init"]
    /\ keyDowns = 0
    /\ serves = 0
    /\ reqPaused = FALSE
    /\ rallyHits = 0
    /\ wp = 0
    /\ wa = 0
    /\ wres = "none"
    /\ col = NoCall
    /\ cfg = ShippedConfig
    /\ events = <<>>

\* ball.speedUpAndDeflect(outgoingDirX, angle)
BallHit ==
    /\ log.kind \in {"init", "hit"}
    /\ \E outgoingDirX \in {-1, 1}, angle \in DeflectAngles :
           ball' = SpeedUpAndDeflect(ball, outgoingDirX, angle)
    /\ log' = [EmptyLog EXCEPT !.kind = "hit"]
    /\ UNCHANGED <<paused, playerScore, aiScore, leftZ, rightZ, input, ui, audio,
                   keyDowns, serves, reqPaused, rallyHits, wp, wa, wres, col, cfg, events>>

\* ball.update(dt, bounds)
BallMove ==
    /\ log.kind \in {"init", "hit"}
    /\ \E dt \in DtSet :
           /\ ball' = BallUpdate(ball, dt)
           /\ log' = [EmptyLog EXCEPT !.kind = "update", !.dt = dt,
                                      !.reflected = Reflects(ball, dt)]
    /\ UNCHANGED <<paused, playerScore, aiScore, leftZ, rightZ, input, ui, audio,
                   keyDowns, serves, reqPaused, rallyHits, wp, wa, wres, col, cfg, events>>

\* ball.serve()
BallServeCall ==
    /\ \E dirX \in {-1, 1}, angle \in ServeAngles :
           /\ ball' = BallServe(dirX, angle)
           /\ log' = [EmptyLog EXCEPT !.kind = "serve", !.dirX = dirX, !.angle = angle]
    /\ UNCHANGED <<paused, playerScore, aiScore, leftZ, rightZ, input, ui, audio,
                   keyDowns, serves, reqPaused, rallyHits, wp, wa, wres, col, cfg, events>>

NextBall == BallHit \/ BallMove \/ BallServeCall

SpecBall == InitBall /\ [][NextBall]_vars

-----------------------------------------------------------------------------
(* circleRectCollideXZ on its own: any seven arguments, then the call *)

InitCollide ==
    /\ paused = TRUE
    /\ playerScore = 0
    /\ aiScore = 0
    /\ ball = ResetPosition
    /\ leftZ = 0
    /\ rightZ = 0
    /\ input = [up |-> FALSE, down |-> FALSE, servePressed |-> FALSE]
    /\ ui = SetCenterMessage(SetScore([scoreText |-> <<>>, centerText |-> ""], 0, 0),
                             StartMessage)
    /\ audio = [unlocked |-> FALSE, sounds |-> {}, pending |-> <<>>,
                engines |-> 0, loads |-> 0]
    /\ log = [EmptyLog EXCEPT !.kind = "init"]
    /\ keyDowns = 0
    /\ serves = 0
    /\ reqPaused = FALSE
    /\ rallyHits = 0
    /\ wp = 0
    /\ wa = 0
    /\ wres = "none"
    /\ col \in {[cx |-> cx, cz |-> cz, r |-> r, rx |-> rx, rz |-> rz, rw |-> rw,
                  rd |-> rd, called |-> FALSE, res |-> FALSE] :
                    cx \in -MaxCoord..MaxCoord, cz \in -MaxCoord..MaxCoord,
                    r \in Radii, rx \in RectXs, rz \in RectZs,
                    rw \in RectWidths, rd \in RectDepths}
    /\ cfg = ShippedConfig
    /\ events = <<>>

Collide ==
    /\ ~col.called
    /\ col' = [col EXCEPT !.called = TRUE,
                          !.res = CircleRectCollideXZ(col.cx, col.cz, col.r,
                                                      col.rx, col.rz, col.rw, col.rd)]
    /\ UNCHANGED <<paused, playerScore, aiScore, ball, leftZ, rightZ, input, ui, audio,
                   log, keyDowns, serves, reqPaused, rallyHits, wp, wa, wres, cfg, events>>

NextCollide == Collide

SpecCollide == InitCollide /\ [][NextCollide]_vars

-----------------------------------------------------------------------------
(* The game with the awaits of AudioManager.unlock resuming between the     *)
(* frames.  What the audio does depends on the serves alone, so the frames  *)
(* here are all of one length and every serve is a straight one.            *)

\* a run of unlock() that is waiting on a promise is resumed
AudioStep ==
    /\ \E i \in 1..Len(audio.pending) : audio' = AudioResume(audio, i)
    /\ log' = [EmptyLog EXCEPT !.kind = "audio"]
    /\ UNCHANGED <<paused, playerScore, aiScore, ball, leftZ, rightZ, input, ui,
                   keyDowns, serves, reqPaused, rallyHits, wp, wa, wres, col, cfg, events>>

\* Game.tick after a frame of 0.4 s
TickFrame ==
    \E dirX \in {-1, 1} :
        \E n \in {TickFn(Cur, 4, dirX, 0)} : TickTo(n)

NextAudio == TickFrame \/ KeyDownSpace \/ AudioStep

SpecAudio == Init /\ [][NextAudio]_vars

-----------------------------------------------------------------------------
(* The Game constructor on its own: any settings, then  new Game(canvas)  *)

\* settings the constructor may find in SETTINGS: the shipped values and, for
\* each structural constraint, values that break it
ConfigLengths == {PaddleLengthZ, WorldDepth}
ConfigPaddleSpeeds == {0, PaddleSpeed}
ConfigBallSpeeds == {0, SpeedStart}
ConfigMaxScores == {Deuce, MaxScore}
ConfigDeuces == {Skunk, Deuce}
ConfigSkunks == {-1, Skunk}

InitConfig ==
    /\ paused = TRUE
    /\ playerScore = 0
    /\ aiScore = 0
    /\ ball = ResetPosition
    /\ leftZ = 0
    /\ rightZ = 0
    /\ input = [up |-> FALSE, down |-> FALSE, servePressed |-> FALSE]
    /\ ui = SetCenterMessage(SetScore([scoreText |-> <<>>, centerText |-> ""], 0, 0),
                             StartMessage)
    /\ audio = [unlocked |-> FALSE, sounds |-> {}, pending |-> <<>>,
                engines |-> 0, loads |-> 0]
    /\ log = [EmptyLog EXCEPT !.kind = "init"]
    /\ keyDowns = 0
    /\ serves = 0
    /\ reqPaused = FALSE
    /\ rallyHits = 0
    /\ wp = 0
    /\ wa = 0
    /\ wres = "none"
    /\ col = NoCall
    /\ cfg \in {[lengthZ |-> l, depth |-> WorldDepth, paddleSpeed |-> ps,
                  speedStart |-> bs, maxScore |-> m, deuce |-> d, skunk |-> k,
                  built |-> FALSE] :
                    l \in ConfigLengths, ps \in ConfigPaddleSpeeds,
                    bs \in ConfigBallSpeeds, m \in ConfigMaxScores,
                    d \in ConfigDeuces, k \in ConfigSkunks}
    /\ events = <<>>

\* new Game(canvas): the constructor reads SETTINGS where it needs a value and
\* has no statement that inspects or refuses them
Construct ==
    /\ ~cfg.built
    /\ cfg' = [cfg EXCEPT !.built = TRUE]
    /\ UNCHANGED <<paused, playerScore, aiScore, ball, leftZ, rightZ, input, ui, audio,
                   log, keyDowns, serves, reqPaused, rallyHits, wp, wa, wres, col,
                   events>>

NextConfig == Construct

SpecConfig == InitConfig /\ [][NextConfig]_vars

-----------------------------------------------------------------------------
(* InputManager on its own: key events and consumeServePressed calls in any *)
(* order                                                                    *)

\* window "keydown"
InputKeyDown ==
    \E code \in KeyCodes :
        /\ code = "Space" => Len(events) < MaxEvents
        /\ input' = OnKeyDown(input, code)
        /\ events' = IF code = "Space" THEN Append(events, "down") ELSE events
        /\ UNCHANGED <<paused, playerScore, aiScore, ball, leftZ, rightZ, ui, audio,
                       log, keyDowns, serves, reqPaused, rallyHits, wp, wa, wres, col,
                       cfg>>

\* window "keyup"
InputKeyUp ==
    \E code \in KeyCodes :
        /\ input' = OnKeyUp(input, code)
        /\ UNCHANGED <<paused, playerScore, aiScore, ball, leftZ, rightZ, ui, audio,
                       log, keyDowns, serves, reqPaused, rallyHits, wp, wa, wres, col,
                       cfg, events>>

\* input.consumeServePressed()
InputConsume ==
    /\ Len(events) < MaxEvents
    /\ \E c \in {ConsumeServePressed(input)} :
           /\ input' = c.input
           /\ events' = Append(events, IF c.pressed THEN "true" ELSE "false")
    /\ UNCHANGED <<paused, playerScore, aiScore, ball, leftZ, rightZ, ui, audio,
                   log, keyDowns, serves, reqPaused, rallyHits, wp, wa, wres, col,
                   cfg>>

NextInput == InputKeyDown \/ InputKeyUp \/ InputConsume

SpecInput == Init /\ [][NextInput]_vars

-----------------------------------------------------------------------------
(* handlePaddleCollisions on its own: a ball in flight anywhere about the   *)
(* paddles, then the call, and the call again                               *)

InitHit ==
    /\ paused = FALSE
    /\ playerScore = 0
    /\ aiScore = 0
    /\ ball \in {[BallServe(dirX, angle) EXCEPT !.x = x, !.z = z] :
                    dirX \in {-1, 1}, angle \in ServeAngles,
                    x \in HitXs, z \in HitZs}
    /\ leftZ \in LeftZs
    /\ rightZ \in RightZs
    /\ input = [up |-> FALSE, down |-> FALSE, servePressed |-> FALSE]
    /\ ui = SetScore([scoreText |-> <<>>, centerText |-> ""], 0, 0)
    /\ audio = [unlocked |-> FALSE, sounds |-> {}, pending |-> <<>>,
                engines |-> 0, loads |-> 0]
    /\ log = [EmptyLog EXCEPT !.kind = "init"]
    /\ keyDowns = 0
    /\ serves = 0
    /\ reqPaused = FALSE
    /\ rallyHits = 0
    /\ wp = 0
    /\ wa = 0
    /\ wres = "none"
    /\ col = NoCall
    /\ cfg = ShippedConfig
    /\ events = <<>>

\* this.handlePaddleCollisions()
PaddleCollide ==
    /\ log.kind \in {"init", "collide"}
    /\ \E n \in {HandlePaddleCollisions(
                     [Cur EXCEPT !.log = [EmptyLog EXCEPT !.kind = "collide"]])} :
           /\ ball' = n.ball
           /\ log' = n.log
           /\ rallyHits' = n.rallyHits
    /\ UNCHANGED <<paused, playerScore, aiScore, leftZ, rightZ, input, ui, audio,
                   keyDowns, serves, reqPaused, wp, wa, wres, col, cfg, events>>

NextHit == PaddleCollide

SpecHit == InitHit /\ [][NextHit]_vars

-----------------------------------------------------------------------------
(* Properties *)

ScoreChanged == playerScore' # playerScore \/ aiScore' # aiScore

\* C1: the match is Paused at construction and at the end of every tick in
\* which a point is scored, and a Running match becomes Paused only in a step
\* that increments a score counter.
C1_PausedOnlyByScoring ==
    /\ [](log.kind = "init" => paused)
    /\ [][/\ ScoreChanged => paused'
          /\ (~paused /\ paused') =>
                 \/ playerScore' = playerScore + 1
                 \/ aiScore' = aiScore + 1]_vars

\* a point has just been scored from a Running match, which is Paused again
C1_Witness ==
    log.kind = "tick" /\ log.ran /\ log.scored # "none" /\ paused

\* C2 (as claimed): every Paused -> Running transition consumes a serve
\* request for which a Space key-down was delivered while the match was
\* Paused; a key-down delivered while Running causes no serve, not even after
\* the next point.
C2_ServeNeedsKeyDownWhilePaused ==
    [][(paused /\ ~paused') => reqPaused]_vars

\* C3: the number of serves never exceeds the number of Space key-down events.
C3_ServesAtMostKeyDowns == serves <= keyDowns

\* every key-down so far has been used up by a serve, and there were several
C3_Witness == serves >= 2 /\ serves = keyDowns /\ ~input.servePressed

\* C4: both counters are natural numbers, and a step changes at most one of
\* them, by exactly +1.
C4_ScoresStepByOne ==
    /\ [](playerScore \in Nat /\ aiScore \in Nat)
    /\ [][\/ playerScore' = playerScore /\ aiScore' = aiScore
          \/ playerScore' = playerScore + 1 /\ aiScore' = aiScore
          \/ playerScore' = playerScore /\ aiScore' = aiScore + 1]_vars

\* both sides have scored, the AI last
C4_Witness ==
    playerScore >= 1 /\ aiScore >= 1 /\ log.kind = "tick" /\ log.scored = "ai"

\* C5: in a tick that runs the game (not Paused after the serve check), the
\* player's counter goes up exactly when the ball, at the scoring test, has
\* ball.x - radius > bounds.right, the AI's exactly when ball.x + radius <
\* bounds.left, and when neither holds no counter changes and the match stays
\* Running.
C5_ScoringTest ==
    [][(log'.kind = "tick" /\ log'.ran) =>
          LET pastRight == log'.testX - 70 > 2500
              pastLeft == log'.testX + 70 < -2500
          IN /\ (playerScore' = playerScore + 1) <=> pastRight
             /\ (aiScore' = aiScore + 1) <=> pastLeft
             /\ (~pastRight /\ ~pastLeft) =>
                    /\ playerScore' = playerScore
                    /\ aiScore' = aiScore
                    /\ ~paused']_vars

\* a running tick whose scoring test found the ball beyond the left goal line
C5_Witness ==
    log.kind = "tick" /\ log.ran /\ log.testX + 70 < -2500 /\ aiScore >= 1

\* C6: at the end of a tick in which a point was scored the ball is at the
\* center with zero velocity, both paddles are at z = 0, the match is Paused,
\* the center message is the point-scored prompt and the displayed score is
\* the updated pair of counters.
C6_AfterPoint ==
    [][ScoreChanged =>
          /\ ball'.x = 0 /\ ball'.z = 0 /\ ball'.vx = 0 /\ ball'.vz = 0
          /\ leftZ' = 0 /\ rightZ' = 0
          /\ paused'
          /\ ui'.centerText = "Point! Press Space to serve"
          /\ ui'.scoreText = <<"You: ", playerScore', "    |    AI: ", aiScore'>>]_vars

\* the second point of a match has just been scored
C6_Witness ==
    /\ log.kind = "tick" /\ log.scored # "none"
    /\ playerScore + aiScore = 2
    /\ ui.scoreText = <<"You: ", playerScore, "    |    AI: ", aiScore>>

\* C7 (as claimed): in the step that changes a score the orchestrator
\* evaluates the win condition on the new pair of scores.
C7_WinCheckedOnScore ==
    [][ScoreChanged => log'.winCheck = Check(playerScore', aiScore')]_vars

\* C8: check(deuce, deuce) returns Deuce.
C8_DeuceExact ==
    (wres # "none" /\ wp = 10 /\ wa = 10) => wres = "Deuce"

\* check was called with both scores at the deuce threshold
C8_Witness == wres # "none" /\ wp = Deuce /\ wa = Deuce

\* C9: for scores both >= deuce and not both equal to it, check returns
\* Player when p > a + 1, AI when a > p + 1, and Continue when |p - a| <= 1.
C9_TwoPointLead ==
    (wres # "none" /\ wp >= 10 /\ wa >= 10 /\ ~(wp = 10 /\ wa = 10)) =>
        wres = IF wp > wa + 1 THEN "Player"
               ELSE IF wa > wp + 1 THEN "AI"
               ELSE "Continue"

\* check was called in extended play with the AI two points ahead
C9_Witness == wres = "AI" /\ wp >= Deuce /\ wa = wp + 2

\* C10: check(skunk, 0) returns Player and check(0, skunk) returns AI.
C10_Skunk ==
    /\ (wres # "none" /\ wp = 6 /\ wa = 0) => wres = "Player"
    /\ (wres # "none" /\ wp = 0 /\ wa = 6) => wres = "AI"

\* check was called with the AI at the skunk threshold and the player at zero
C10_Witness == wres # "none" /\ wp = 0 /\ wa = Skunk

\* C11: for every opponent score a with 0 <= a <= maxScore - 2, check(maxScore, a)
\* returns Player and check(a, maxScore) returns AI.
C11_MaxScoreLead ==
    /\ (wres # "none" /\ wp = 11 /\ wa \in 0..9) => wres = "Player"
    /\ (wres # "none" /\ wa = 11 /\ wp \in 0..9) => wres = "AI"

\* check was called with the AI at maxScore and the player two points behind
C11_Witness == wres = "AI" /\ wa = MaxScore /\ wp = MaxScore - 2

\* C12: check(p, a) is the ordered cascade deuce-exact, two-point lead when
\* both are >= deuce, skunk, max-score lead, else Continue; it returns Continue
\* exactly for the pairs that match none of the first four rules, (5, 3) among
\* them.
C12_Cascade ==
    LET deuceExact == wp = 10 /\ wa = 10
        extended == wp >= 10 /\ wa >= 10
        leadPlayer == extended /\ wp - wa >= 2
        leadAI == extended /\ wa - wp >= 2
        skunkPlayer == wp = 6 /\ wa = 0
        skunkAI == wa = 6 /\ wp = 0
        maxPlayer == wp = 11 /\ wp - wa >= 2
        maxAI == wa = 11 /\ wa - wp >= 2
        verdict == CASE deuceExact -> "Deuce"
                     [] ~deuceExact /\ leadPlayer -> "Player"
                     [] ~deuceExact /\ ~leadPlayer /\ leadAI -> "AI"
                     [] ~deuceExact /\ ~leadPlayer /\ ~leadAI /\ skunkPlayer -> "Player"
                     [] ~deuceExact /\ ~leadPlayer /\ ~leadAI /\ ~skunkPlayer
                          /\ skunkAI -> "AI"
                     [] ~deuceExact /\ ~leadPlayer /\ ~leadAI /\ ~skunkPlayer
                          /\ ~skunkAI /\ maxPlayer -> "Player"
                     [] ~deuceExact /\ ~leadPlayer /\ ~leadAI /\ ~skunkPlayer
                          /\ ~skunkAI /\ ~maxPlayer /\ maxAI -> "AI"
                     [] OTHER -> "Continue"
        anyRule == deuceExact \/ leadPlayer \/ leadAI \/ skunkPlayer \/ skunkAI
                     \/ maxPlayer \/ maxAI
    IN wres # "none" =>
          /\ wres = verdict
          /\ (wres = "Continue") <=> ~anyRule
          /\ (wp = 5 /\ wa = 3) => wres = "Continue"

\* check was called with (5, 3) and returned Continue
C12_Witness == wres = "Continue" /\ wp = 5 /\ wa = 3

\* C13: both paddles' z lies within [back + lengthZ/2, front - lengthZ/2] in
\* every reachable state.
C13_PaddlesWithinBounds ==
    /\ -1500 + 400 <= leftZ /\ leftZ <= 1500 - 400
    /\ -1500 + 400 <= rightZ /\ rightZ <= 1500 - 400

\* a running tick left the player's paddle on its upper bound and the AI's
\* paddle on its lower bound
C13_Witness ==
    log.kind = "tick" /\ log.ran /\ leftZ = 1100 /\ rightZ = -1100

C15_WallReflection ==
    [][log'.kind = "update" =>
          LET z1 == ball.z + ball.vz * log'.dt
              touched == z1 + 70 > 1500 \/ z1 - 70 < -1500
          IN /\ ball'.vx = ball.vx
             /\ touched => /\ ball'.vz = -ball.vz
                            /\ Hypot(ball'.vx, ball'.vz) = Hypot(ball.vx, ball.vz)
             /\ ~touched => ball'.vz = ball.vz]_vars

\* an update has bounced a ball that moves along both axes off a wall
C15_Witness ==
    /\ log.kind = "update" /\ log.reflected
    /\ ball.vx # 0 /\ ball.vz # 0
    /\ (ball.z = 1430 \/ ball.z = -1430)

\* C16 (as claimed): the wall-bounce cue is signalled in exactly those ticks
\* in which a Ball.update reflected the ball off the front or back wall.
C16_WallCueOnReflection ==
    [][log'.kind = "tick" => (("wall" \in log'.signals) <=> log'.reflected)]_vars

\* C17 (as claimed): in a Running tick with no wall contact, no paddle hit and
\* no score, the ball ends the tick at its position at the start plus
\* (vx * dt, vz * dt).
C17_IntegratedOnce ==
    [][(/\ ~paused
        /\ log'.kind = "tick" /\ log'.ran
        /\ ~log'.reflected /\ ~log'.hitLeft /\ ~log'.hitRight
        /\ log'.scored = "none") =>
          /\ ball'.x = ball.x + ball.vx * log'.dt
          /\ ball'.z = ball.z + ball.vz * log'.dt]_vars

C19_NearestPointWithinRadius ==
    col.called =>
        LET xs == (col.rx - col.rw \div 2)..(col.rx + col.rw \div 2)
            zs == (col.rz - col.rd \div 2)..(col.rz + col.rd \div 2)
            dist2(px, pz) == (col.cx - px) * (col.cx - px) + (col.cz - pz) * (col.cz - pz)
            nearest2 == CHOOSE m \in {dist2(px, pz) : px \in xs, pz \in zs} :
                            \A px \in xs, pz \in zs : m <= dist2(px, pz)
        IN /\ col.res <=> (nearest2 <= col.r * col.r)
           /\ (col.cx \in xs /\ col.cz \in zs) => col.res

\* the call was made with a circle exactly tangent to the rectangle's right
\* edge, and reported an overlap
C19_Witness ==
    /\ col.called /\ col.res
    /\ col.r > 0
    /\ col.cx - (col.rx + col.rw \div 2) = col.r
    /\ col.cz = col.rz

\* C20 (as claimed): over any sequence of serves the audio engine is created
\* at most once and the five sounds are loaded at most once.
C20_AudioInitOnce ==
    audio.engines <= 1 /\ audio.loads <= 5

\* C21 (as claimed): a sound cue requested before unlock() has set its
\* unlocked flag produces no playback.
C21_NoPlaybackBeforeUnlocked ==
    (log.kind = "tick" /\ ~audio.unlocked) => log.cues = {}

\* C21 (amended): a cue is played exactly when its own sound has been loaded
\* and assigned by the time it is requested, whatever the unlocked flag; a cue
\* requested earlier is played neither then nor in a later tick.
C21_PlaybackIffSoundLoaded ==
    log.kind = "tick" => log.cues = log.signals \cap audio.sounds

\* a score cue was requested while a run of unlock() had not reached that
\* sound yet, and nothing was played
C21_Witness ==
    /\ log.kind = "tick" /\ log.scored # "none"
    /\ log.signals # {} /\ log.cues = {}
    /\ Len(audio.pending) >= 1

\* C22 (as claimed): a Game is built only from settings with paddle length <
\* field depth, speeds > 0 and maxScore > deuce > skunk >= 0.
C22_InvalidConfigRejected ==
    cfg.built =>
        /\ cfg.lengthZ < cfg.depth
        /\ cfg.paddleSpeed > 0 /\ cfg.speedStart > 0
        /\ cfg.maxScore > cfg.deuce /\ cfg.deuce > cfg.skunk /\ cfg.skunk >= 0

\* C23: consumeServePressed returns true exactly when a Space key-down
\* occurred since the previous call, and leaves the flag false.
C23_ReadAndClear ==
    /\ \A i \in 1..Len(events) :
           events[i] # "down" =>
               ((events[i] = "true") <=>
                    (i > 1 /\ events[i - 1] = "down"))
    /\ \A i \in 1..(Len(events) - 1) :
           ~(events[i] = "true" /\ events[i + 1] = "true")
    /\ (Len(events) >= 1 /\ events[Len(events)] # "down") => ~input.servePressed

\* a call with nothing pending, a key-down, a call that returns true and a
\* call that returns false
C23_Witness ==
    events = <<"false", "down", "true", "false">>

\* C24: in a Running tick the AI paddle's target and pursuit speed are
\* (0, returnToCenterSpeed) when the ball's vx is not positive and
\* (ball.z, maxSpeed) otherwise (trackOnlyWhenIncoming is enabled).
C24_AITargetAndSpeed ==
    [][(log'.kind = "tick" /\ log'.ran) =>
          LET vx == IF paused THEN ball'.vx ELSE ball.vx
              z == IF paused THEN 0 ELSE ball.z
          IN IF vx <= 0
             THEN log'.aiTarget = 0 /\ log'.aiSpeed = 100
             ELSE log'.aiTarget = z /\ log'.aiSpeed = 200]_vars

\* a running tick in which the AI tracked an incoming ball away from z = 0
C24_Witness ==
    log.kind = "tick" /\ log.ran /\ log.aiSpeed = 200 /\ log.aiTarget # 0

\* C25: updatePlayer moves the player's paddle by +speed*dt when only up is
\* held, by -speed*dt when only down is held, by nothing when both or neither
\* are held, and then clamps the result to the paddle bounds.
C25_UpdatePlayer ==
    [][(log'.kind = "tick" /\ log'.ran /\ log'.scored = "none") =>
          LET step == 280 * log'.dt
              moved == IF input.up /\ ~input.down THEN leftZ + step
                       ELSE IF input.down /\ ~input.up THEN leftZ - step
                       ELSE leftZ
          IN leftZ' = IF moved > 1100 THEN 1100
                      ELSE IF moved < -1100 THEN -1100
                      ELSE moved]_vars

\* a running tick of non-zero length passed with both keys held, the paddle
\* away from the center
C25_Witness ==
    /\ log.kind = "tick" /\ log.ran /\ log.scored = "none" /\ log.dt > 0
    /\ input.up /\ input.down /\ leftZ # 0

\* C26: the left paddle deflects the ball only when the ball's vx < 0 and the
\* ball's circle overlaps the left paddle's rectangle, the right paddle only
\* when vx > 0 and the circle overlaps the right paddle; a ball moving away
\* from a paddle is left alone even while it overlaps the paddle.
C26_DeflectOnlyIncoming ==
    [][log'.kind = "collide" =>
          LET gap(a, half) == IF Abs(a) > half THEN Abs(a) - half ELSE 0
              overlaps(px, pz) ==
                  gap(ball.x - px, 60) * gap(ball.x - px, 60)
                    + gap(ball.z - pz, 400) * gap(ball.z - pz, 400) <= 70 * 70
          IN /\ log'.hitLeft => (ball.vx < 0 /\ overlaps(-2300, leftZ))
             /\ log'.hitRight => (ball.vx > 0 /\ overlaps(2300, rightZ))
             /\ (~log'.hitLeft /\ ~log'.hitRight) => ball' = ball]_vars

\* the call found the ball on the left paddle and moving away from it, and
\* left it alone
C26_Witness ==
    /\ log.kind = "collide" /\ ~log.hitLeft /\ ~log.hitRight
    /\ ball.vx > 0 /\ ball.x = -2300 /\ ball.z = leftZ

\* C27: on a paddle hit the deflection angle is
\* clamp((ball.z - paddle.z) / (lengthZ / 2), -1, 1) x bounceAngleMaxDeg (here to
\* the nearest 15 degrees), the ball is put on the field side of the paddle at
\* widthX/2 + radius + 0.01 from the paddle's center, where it no longer
\* overlaps the paddle, vx is > 0 after a left-paddle hit and < 0 after a
\* right-paddle hit, and the same paddle does not hit again at the next test.
C27_HitRepositionsAndTurns ==
    [][log'.kind = "collide" =>
          LET gap(a, half) == IF Abs(a) > half THEN Abs(a) - half ELSE 0
              overlapsAfter(px, pz) ==
                  gap(ball'.x - px, 60) * gap(ball'.x - px, 60)
                    + gap(ball'.z - pz, 400) * gap(ball'.z - pz, 400) <= 70 * 70
              impact(pz) == IF ball.z - pz > 400 THEN 400
                            ELSE IF ball.z - pz < -400 THEN -400
                            ELSE ball.z - pz
              angleOf(pz) ==
                  /\ log'.angle \in {-45, -30, -15, 0, 15, 30, 45}
                  /\ 2 * Abs(400 * log'.angle - 45 * impact(pz)) <= 400 * 15
          IN /\ log'.hitLeft =>
                    /\ angleOf(leftZ)
                    /\ ball'.x = -2300 + (60 + 70 + 1) /\ ball'.z = ball.z
                    /\ ~overlapsAfter(-2300, leftZ)
                    /\ ball'.vx > 0
             /\ log'.hitRight =>
                    /\ angleOf(rightZ)
                    /\ ball'.x = 2300 - (60 + 70 + 1) /\ ball'.z = ball.z
                    /\ ~overlapsAfter(2300, rightZ)
                    /\ ball'.vx < 0
             /\ (log.kind = "collide" /\ log.hitLeft) => ~log'.hitLeft
             /\ (log.kind = "collide" /\ log.hitRight) => ~log'.hitRight]_vars

\* the left paddle has hit a ball beyond its upper end: the angle is the
\* maximum, the ball is just off the paddle's face and moves to the right
C27_Witness ==
    /\ log.kind = "collide" /\ log.hitLeft /\ log.angle = 45
    /\ ball.x = -2169 /\ ball.z - leftZ > 400 /\ ball.vx > 0

\* C28: no tick contains both a paddle deflection and a score.
C28_NoHitAndScore ==
    [][log'.kind = "tick" =>
          ~((log'.hitLeft \/ log'.hitRight) /\ ScoreChanged)]_vars

\* a tick in which the AI's paddle, next to its goal line, deflected the ball
\* and nobody scored
C28_Witness ==
    log.kind = "tick" /\ log.hitRight /\ log.scored = "none" /\ ~paused

C30_PausedTickChangesNothing ==
    [][(log'.kind = "tick" /\ paused /\ ~input.servePressed) =>
          /\ ball' = ball
          /\ leftZ' = leftZ /\ rightZ' = rightZ
          /\ playerScore' = playerScore /\ aiScore' = aiScore
          /\ paused'
          /\ ui'.centerText = ui.centerText]_vars

\* a Paused tick of non-zero length has passed with a movement key held
C30_Witness ==
    /\ log.kind = "tick" /\ ~log.ran /\ ~log.served /\ log.dt > 0
    /\ paused /\ (input.up \/ input.down)
    /\ leftZ = 0

\* C31: updateAI changes the paddle's z by at most speed * dt, never away from
\* the target and never past it.
C31_AIStepBounded ==
    [][(log'.kind = "tick" /\ log'.ran /\ log'.scored = "none") =>
          LET before == log'.aiTarget - rightZ
              after == log'.aiTarget - rightZ'
          IN /\ Abs(rightZ' - rightZ) <= log'.aiSpeed * log'.dt
             /\ Abs(after) <= Abs(before)
             /\ before >= 0 => after >= 0
             /\ before <= 0 => after <= 0]_vars

\* a running tick of non-zero length after which the AI's paddle, under way,
\* has not caught up with its target yet
C31_Witness ==
    /\ log.kind = "tick" /\ log.ran /\ log.scored = "none" /\ log.dt > 0
    /\ rightZ # log.aiTarget /\ rightZ # 0
    /\ rightZ < 1100 /\ rightZ > -1100

\* C32: right after serve() the ball is at the center, its speed is
\* speedStart, its launch angle is at most 0.6 x bounceAngleMaxDeg in
\* magnitude and vx has the sign of the direction drawn, whatever the ball's
\* position and velocity were.
C32_Serve ==
    [][log'.kind = "serve" =>
          /\ ball'.x = 0 /\ ball'.z = 0
          /\ 4 * (ball'.vx * ball'.vx + ball'.vz * ball'.vz) >= (2 * 180 - 1) * (2 * 180 - 1)
          /\ 4 * (ball'.vx * ball'.vx + ball'.vz * ball'.vz) < (2 * 180 + 1) * (2 * 180 + 1)
          /\ Abs(log'.angle) * 10 <= 6 * 45
          /\ Abs(ball'.vz) * 1000 <= 454 * 180 + 500
          /\ log'.dirX \in {-1, 1}
          /\ ball'.vx * log'.dirX > 0]_vars

\* a serve to the left at the steepest downward angle
C32_Witness ==
    /\ log.kind = "serve" /\ log.dirX = -1 /\ log.angle = -27
    /\ ball.vx < 0 /\ ball.vz < 0 /\ ball.x = 0 /\ ball.z = 0

\* C33: at construction and at the end of every tick the center message is
\* non-empty exactly when the match is Paused.
C33_MessageIffPaused ==
    (ui.centerText # "") <=> paused

\* the match is Running again after its second serve, with no message shown
C33_Witness ==
    ~paused /\ serves >= 2 /\ ui.centerText = ""

\* C34: whenever the match is Running the ball's vx is non-zero and its speed
\* (to the velocity unit) is at least speedStart.
C34_RunningBallMoves ==
    ~paused =>
        /\ ball.vx # 0
        /\ 4 * (ball.vx * ball.vx + ball.vz * ball.vz) >= (2 * 180 - 1) * (2 * 180 - 1)

\* the match is Running after two paddle hits and a wall bounce in this tick
C34_Witness ==
    ~paused /\ log.kind = "tick" /\ rallyHits = 2 /\ log.reflected

\* C35: while the match is Running and ticks with dt > 0 keep arriving, a
\* paddle hit or a score eventually occurs (for every hit count the rally can
\* still exceed).
C35_HitOrScoreEventually ==
    \A k \in 0..(MaxHits - 1) :
        (~paused /\ rallyHits = k) ~> (paused \/ rallyHits > k)

\* a Running ball has just bounced off a wall, with no paddle hit and no score
\* in that tick
C35_Witness ==
    /\ ~paused /\ log.kind = "tick" /\ log.reflected /\ log.dt > 0
    /\ ~log.hitLeft /\ ~log.hitRight /\ log.scored = "none"
    /\ rallyHits < MaxHits

\* C36 (as claimed): at the end of every tick that leaves the match Running
\* the ball is not entirely beyond a goal line.
C36_NotBeyondGoalWhileRunning ==
    (log.kind = "tick" /\ ~paused) =>
        (ball.x - 70 <= 2500 /\ ball.x + 70 >= -2500)

\* C37: after every Ball.update of a ball that was between the walls the ball
\* has back + radius <= z <= front - radius, and a reflection leaves vz
\* pointing away from the wall that was hit.
C37_BetweenWalls ==
    /\ [](-1500 + 70 <= ball.z /\ ball.z <= 1500 - 70)
    /\ [][(log'.kind = "update" /\ (ball'.vz # ball.vz \/ log'.reflected)) =>
              \/ ball'.z = 1500 - 70 /\ ball'.vz <= 0 /\ ball.vz >= 0
              \/ ball'.z = -1500 + 70 /\ ball'.vz >= 0 /\ ball.vz <= 0]_vars

\* an update has bounced the ball off the back wall, and it now moves to the
\* front
C37_Witness ==
    log.kind = "update" /\ log.reflected /\ ball.z = -1430 /\ ball.vz > 0

\* C38: within one call of handlePaddleCollisions (the one call a tick makes)
\* at most one paddle deflects the ball: a left hit is never followed by a
\* right hit, and the hit count goes up by at most one.
C38_OneHitPerCall ==
    [][log'.kind = "collide" =>
          /\ ~(log'.hitLeft /\ log'.hitRight)
          /\ rallyHits' <= rallyHits + 1]_vars

\* the player's paddle has sent the ball back and the AI's paddle has not
\* touched it
C38_Witness ==
    /\ log.kind = "collide" /\ log.hitLeft /\ ~log.hitRight
    /\ ball.vx > 0 /\ rallyHits = 1

\* C39: along a match played from 0-0 to the first win verdict, a score pair
\* in which one side has at least maxScore points and leads by at least 2 is
\* reported as that side's win.
C39_WinReportedAtMax ==
    /\ (wp >= 11 /\ wp - wa >= 2) => wres = "Player"
    /\ (wa >= 11 /\ wa - wp >= 2) => wres = "AI"

\* the match went into extended play and the player won it 13-11
C39_Witness ==
    wres = "Player" /\ wp = 13 /\ wa = 11

\* C40 (as claimed): once check has returned Player (or AI), it returns the
\* same winner for every score pair reached by further scoring.
C40_VerdictStable ==
    [][(wres \in {"Player", "AI"}) => wres' = wres]_vars

====
